---- MODULE Spec2Model ----
(***************************************************************************)
(* zza-cache: a distributed read-through cache.                            *)
(*                                                                         *)
(*   lru/lru.go            Cache: byte-bounded LRU store                   *)
(*   consistenthash        Map: hash ring with virtual replicas            *)
(*   zzacache.go           Group: get / peer fetch / loader fallback       *)
(*   http.go               HTTPPool, httpGetter: peers and their transport *)
(*                                                                         *)
(* The specifications of this module, one per component or concern:        *)
(*   SpecLRU      calls of lru.Cache (Add, Get, RemoveOldest)              *)
(*   SpecLRULoop  the same, Add taken one loop iteration at a time         *)
(*   SpecRing     calls of consistenthash.Map (Add, Get)                   *)
(*   Spec         calls of Group (RegisterPeers, Get) over its mainCache   *)
(*   SpecPool     goroutines calling HTTPPool.Set and PickPeer             *)
(*   SpecRegistry goroutines calling NewGroup and GetGroup                 *)
(*   SpecConc     goroutines calling RegisterPeers and Get on one Group    *)
(*   SpecWire     one request between httpGetter.Get and ServerHTTP        *)
(*   SpecCluster  three nodes forwarding Get calls to each other           *)
(* The variables of the components a specification does not exercise stay  *)
(* at their initial value.  A Go string is the sequence of its characters, *)
(* a []byte the sequence of its bytes.                                     *)
(***************************************************************************)
EXTENDS Integers, Sequences, FiniteSets, TLC

VARIABLES
    lru,        \* the lru.Cache under test: [maxBytes, nbytes, ll, cache, OnEvicated]
    evicted,    \* OnEvicated(key, value) invocations made by the last lru call
    touched,    \* history: the keys by last touch (an Add, or a Get that hit), oldest first
    lruRet,     \* the last lru call and what it returned
    adding,     \* an Add has inserted its entry and is in its eviction loop
    ring,       \* the consistenthash.Map under test: [hash, replicas, keys, hashMap]
    nodes,      \* history: the real nodes passed to Map.Add so far
    ringRet,    \* the last Map call and what it returned
    mainCache,  \* Group.mainCache: [cacheBytes, lru], lru being nil until the first add
    peers,      \* Group.peers: the registered PeerPicker, or Nil
    call,       \* the last Group call: its inputs, what it invoked, what it returned
    pool,       \* the HTTPPool: [self, basePath, peers, httpGetters]
    mu,         \* HTTPPool.mu: 0 when free, else the goroutine holding it
    thr,        \* per goroutine, the pool method it is in and its arguments
    pickRet,    \* the last PickPeer call and what it returned
    sets,       \* history: the peer lists of the Set calls that have returned
    groups,     \* the registry map: per name the *Group, nil (<<>>) when absent
    regMu,      \* the registry's sync.RWMutex: [writer, readers]
    regThr,     \* per goroutine, the registry function it is in and its locals
    regRet,     \* the last GetGroup call and what it returned
    completed,  \* history: per name, the *Group of the last NewGroup that returned
    made,       \* history: how many Groups NewGroup has allocated
    gPeers,     \* Group.peers of the Group shared by the goroutines
    gCache,     \* Group.mainCache of that Group
    gThr,       \* per goroutine, the Group method it is in and its locals
    gRet,       \* the last Group call that returned, and what it returned
    loaderCalls,    \* history: per key, the Loader invocations so far
    remoteFetches,  \* history: per key, the remote fetches that succeeded
    missesServed,   \* history: per key, the Get calls that missed and have returned a value
    started,    \* history: the Get calls started so far
    wIn,        \* a peer exchange: the (group, key) asked for, the serving node's groups and Get answer
    wReq,       \* the request on the wire: its path as sent, and who formed it
    wSrv,       \* what ServerHTTP did with the request
    wCli,       \* what httpGetter.Get returned to its caller
    clCache,    \* per node of the cluster, the mainCache of its Group
    route,      \* the Get calls of one request that are in progress, the first caller's first
    clRet,      \* what the last request returned to its first caller
    requests    \* history: the requests started so far

lruVars   == <<lru, evicted, touched, lruRet, adding>>
ringVars  == <<ring, nodes, ringRet>>
groupVars == <<mainCache, peers, call>>
poolVars  == <<pool, mu, thr, pickRet, sets>>
regVars   == <<groups, regMu, regThr, regRet, completed, made>>
concVars  == <<gPeers, gCache, gThr, gRet, loaderCalls, remoteFetches, missesServed, started>>
wireVars  == <<wIn, wReq, wSrv, wCli>>
clusterVars == <<clCache, route, clRet, requests>>
vars      == <<lruVars, ringVars, groupVars, poolVars, regVars, concVars, wireVars, clusterVars>>

\* the variables of all components but one
exceptLru == <<ringVars, groupVars, poolVars, regVars, concVars, wireVars, clusterVars>>
exceptRing == <<lruVars, groupVars, poolVars, regVars, concVars, wireVars, clusterVars>>
exceptGroup == <<lruVars, ringVars, poolVars, regVars, concVars, wireVars, clusterVars>>
exceptPool == <<lruVars, ringVars, groupVars, regVars, concVars, wireVars, clusterVars>>
exceptReg == <<lruVars, ringVars, groupVars, poolVars, concVars, wireVars, clusterVars>>
exceptConc == <<lruVars, ringVars, groupVars, poolVars, regVars, wireVars, clusterVars>>
exceptWire == <<lruVars, ringVars, groupVars, poolVars, regVars, concVars, clusterVars>>
exceptCluster == <<lruVars, ringVars, groupVars, poolVars, regVars, concVars, wireVars>>

Nil == "<nil>"

(***************************************************************************)
(* Bounds of the model.                                                    *)
(***************************************************************************)
\* a []byte holds at most MaxValueLen bytes
MaxValueLen == 1
\* byte budgets range over 0..MaxBudget (0 is "unbounded")
MaxBudget == 5
\* Map.Add is called only while it leaves the ring with at most MaxRingKeys positions
MaxRingKeys == 4
\* HTTPPool.Set is called at most MaxSets times
MaxSets == 2
\* NewGroup is called at most MaxGroups times
MaxGroups == 3
\* the goroutines start at most MaxGets calls of Group.Get between them
MaxGets == 3
\* group names and keys sent between peers have 1..MaxNameLen characters
MaxNameLen == 2
\* the cluster is sent at most MaxRequests requests
MaxRequests == 2

Bytes == {0, 1}
\* the []byte values: every byte sequence of length 0..MaxValueLen
ByteSlices == UNION {[1..n -> Bytes] : n \in 0..MaxValueLen}
Budgets == 0..MaxBudget
\* keys handed to the lru cache
LruKeys == {<<"a">>, <<"b">>, <<"c", "c">>}

(***************************************************************************)
(* byteview.go                                                             *)
(***************************************************************************)
\* cloneBytes: a fresh slice with the same contents
cloneBytes(b) == [i \in 1..Len(b) |-> b[i]]

\* ByteView{b: b}
ByteView(b) == [b |-> b]

\* ByteView.Len
ByteViewLen(v) == Len(v.b)

\* a nil lru.Value, returned with ok = false; it reads as the zero ByteView
NilValue == [b |-> <<>>]

(***************************************************************************)
(* lru/lru.go.  ll is the list front first; cache is the key set of the    *)
(* map (an element is found in ll by its key).                             *)
(***************************************************************************)
\* lru.New
LruNew(maxBytes, onEvicted) ==
    [maxBytes |-> maxBytes, nbytes |-> 0, ll |-> <<>>, cache |-> {},
     OnEvicated |-> onEvicted]

\* the index in ll of the element cache[key] points to
Element(c, key) == CHOOSE i \in 1..Len(c.ll) : c.ll[i].key = key

\* list.MoveToFront(ele)
MoveToFront(ll, i) ==
    <<ll[i]>> \o SubSeq(ll, 1, i - 1) \o SubSeq(ll, i + 1, Len(ll))

\* size of one entry as Add and RemoveOldest count it
EntrySize(e) == Len(e.key) + ByteViewLen(e.value)

\* Cache.Get with MoveToFront left out
LruGetNoPromote(c, key) ==
    IF key \in c.cache
    THEN [c |-> c, value |-> c.ll[Element(c, key)].value, ok |-> TRUE]
    ELSE [c |-> c, value |-> NilValue, ok |-> FALSE]

\* Cache.Get: [c: the cache afterwards, value, ok]
LruGet(c, key) ==
    IF key \in c.cache
    THEN LET i == Element(c, key)
         IN  [c |-> [c EXCEPT !.ll = MoveToFront(c.ll, i)],
              value |-> c.ll[i].value, ok |-> TRUE]
    ELSE [c |-> c, value |-> NilValue, ok |-> FALSE]

\* Cache.RemoveOldest: [c: the cache afterwards, ev: the OnEvicated calls made]
LruRemoveOldest(c) ==
    IF c.ll # <<>>
    THEN LET kv == c.ll[Len(c.ll)]
         IN  [c |-> [c EXCEPT !.ll = SubSeq(c.ll, 1, Len(c.ll) - 1),
                              !.cache = c.cache \ {kv.key},
                              !.nbytes = c.nbytes - EntrySize(kv)],
              ev |-> IF c.OnEvicated THEN <<kv>> ELSE <<>>]
    ELSE [c |-> c, ev |-> <<>>]

\* Cache.Add up to the eviction loop, the update forgetting the old value's size
LruInsertNoDelta(c, key, value) ==
    IF key \in c.cache
    THEN LET i == Element(c, key)
             ll1 == MoveToFront(c.ll, i)
         IN  [c EXCEPT !.ll = [ll1 EXCEPT ![1].value = value],
                       !.nbytes = c.nbytes + ByteViewLen(value)]
    ELSE [c EXCEPT !.ll = <<[key |-> key, value |-> value]>> \o c.ll,
                   !.cache = c.cache \cup {key},
                   !.nbytes = c.nbytes + Len(key) + ByteViewLen(value)]

\* Cache.Add up to the eviction loop (lines 75-90)
LruInsert(c, key, value) ==
    IF key \in c.cache
    THEN LET i == Element(c, key)
             ll1 == MoveToFront(c.ll, i)
         IN  [c EXCEPT !.ll = [ll1 EXCEPT ![1].value = value],
                       !.nbytes = c.nbytes + ByteViewLen(value)
                                           - ByteViewLen(c.ll[i].value)]
    ELSE [c EXCEPT !.ll = <<[key |-> key, value |-> value]>> \o c.ll,
                   !.cache = c.cache \cup {key},
                   !.nbytes = c.nbytes + Len(key) + ByteViewLen(value)]

\* the eviction loop of Cache.Add sparing the entry at the front of the list
RECURSIVE LruEvictLoopKeepFront(_, _)
LruEvictLoopKeepFront(c, ev) ==
    IF c.maxBytes # 0 /\ c.maxBytes < c.nbytes /\ Len(c.ll) > 1
    THEN LET r == LruRemoveOldest(c)
         IN  LruEvictLoopKeepFront(r.c, ev \o r.ev)
    ELSE [c |-> c, ev |-> ev, returns |-> TRUE]

\* the eviction loop of Cache.Add (lines 92-94): [c, ev, returns].  With the
\* list empty RemoveOldest changes nothing, so a condition that still holds
\* then holds forever and Add does not return.
RECURSIVE LruEvictLoop(_, _)
LruEvictLoop(c, ev) ==
    IF c.maxBytes # 0 /\ c.maxBytes < c.nbytes
    THEN IF c.ll = <<>>
         THEN [c |-> c, ev |-> ev, returns |-> FALSE]
         ELSE LET r == LruRemoveOldest(c)
              IN  LruEvictLoop(r.c, ev \o r.ev)
    ELSE [c |-> c, ev |-> ev, returns |-> TRUE]

\* Cache.Add: [c: the cache afterwards, ev: the OnEvicted calls made, returns]
LruAdd(c, key, value) == LruEvictLoop(LruInsert(c, key, value), <<>>)

\* Cache.Len
LruLen(c) == Len(c.ll)

(***************************************************************************)
(* SpecLRU: any sequence of calls on one lru.Cache.                        *)
(***************************************************************************)
\* history: key becomes the most recently touched, by an Add or by a Get hit
Touch(seq, key, by) ==
    SelectSeq(seq, LAMBDA t : t.key # key) \o <<[key |-> key, by |-> by]>>

LruInit ==
    /\ \E m \in Budgets, cb \in BOOLEAN : lru = LruNew(m, cb)
    /\ evicted = <<>>
    /\ touched = <<>>
    /\ lruRet = [op |-> "New", key |-> <<>>, value |-> NilValue, ok |-> TRUE]
    /\ adding = FALSE

CacheAdd ==
    \E key \in LruKeys, b \in ByteSlices :
        LET r == LruAdd(lru, key, ByteView(b))
        IN  /\ r.returns
            /\ lru' = r.c
            /\ evicted' = r.ev
            /\ touched' = Touch(touched, key, "Add")
            /\ lruRet' = [op |-> "Add", key |-> key, value |-> ByteView(b), ok |-> TRUE]
            /\ UNCHANGED adding

CacheGet ==
    \E key \in LruKeys :
        LET r == LruGet(lru, key)
        IN  /\ lru' = r.c
            /\ evicted' = <<>>
            /\ touched' = IF r.ok THEN Touch(touched, key, "Get") ELSE touched
            /\ lruRet' = [op |-> "Get", key |-> key, value |-> r.value, ok |-> r.ok]
            /\ UNCHANGED adding

CacheRemoveOldest ==
    LET r == LruRemoveOldest(lru)
    IN  /\ lru' = r.c
        /\ evicted' = r.ev
        /\ touched' = touched
        /\ lruRet' = [op |-> "RemoveOldest", key |-> <<>>, value |-> NilValue, ok |-> TRUE]
        /\ UNCHANGED adding

RingIdle ==
    /\ ring = Nil
    /\ nodes = {}
    /\ ringRet = [op |-> "None"]

GroupIdle ==
    /\ mainCache = Nil
    /\ peers = Nil
    /\ call = [op |-> "NewGroup"]

PoolIdle ==
    /\ pool = Nil
    /\ mu = 0
    /\ thr = <<>>
    /\ pickRet = [op |-> "None"]
    /\ sets = <<>>

RegIdle ==
    /\ groups = <<>>
    /\ regMu = 0
    /\ regThr = <<>>
    /\ regRet = [op |-> "None"]
    /\ completed = <<>>
    /\ made = 0

ConcIdle ==
    /\ gPeers = Nil
    /\ gCache = Nil
    /\ gThr = <<>>
    /\ gRet = [op |-> "None"]
    /\ loaderCalls = <<>>
    /\ remoteFetches = <<>>
    /\ missesServed = <<>>
    /\ started = 0

WireIdle ==
    /\ wIn = Nil
    /\ wReq = Nil
    /\ wSrv = Nil
    /\ wCli = Nil

ClusterIdle ==
    /\ clCache = <<>>
    /\ route = <<>>
    /\ clRet = [op |-> "None"]
    /\ requests = 0

LruIdle ==
    /\ lru = Nil
    /\ evicted = <<>>
    /\ touched = <<>>
    /\ lruRet = [op |-> "None"]
    /\ adding = FALSE

\* every component but one at its initial value
IdleExceptLru == RingIdle /\ GroupIdle /\ PoolIdle /\ RegIdle /\ ConcIdle /\ WireIdle /\ ClusterIdle
IdleExceptRing == LruIdle /\ GroupIdle /\ PoolIdle /\ RegIdle /\ ConcIdle /\ WireIdle /\ ClusterIdle
IdleExceptGroup == LruIdle /\ RingIdle /\ PoolIdle /\ RegIdle /\ ConcIdle /\ WireIdle /\ ClusterIdle
IdleExceptPool == LruIdle /\ RingIdle /\ GroupIdle /\ RegIdle /\ ConcIdle /\ WireIdle /\ ClusterIdle
IdleExceptReg == LruIdle /\ RingIdle /\ GroupIdle /\ PoolIdle /\ ConcIdle /\ WireIdle /\ ClusterIdle
IdleExceptConc == LruIdle /\ RingIdle /\ GroupIdle /\ PoolIdle /\ RegIdle /\ WireIdle /\ ClusterIdle
IdleExceptWire == LruIdle /\ RingIdle /\ GroupIdle /\ PoolIdle /\ RegIdle /\ ConcIdle /\ ClusterIdle
IdleExceptCluster == LruIdle /\ RingIdle /\ GroupIdle /\ PoolIdle /\ RegIdle /\ ConcIdle /\ WireIdle

InitLRU == LruInit /\ IdleExceptLru

NextLRU ==
    \/ CacheAdd /\ UNCHANGED exceptLru
    \/ CacheGet /\ UNCHANGED exceptLru
    \/ CacheRemoveOldest /\ UNCHANGED exceptLru

SpecLRU == InitLRU /\ [][NextLRU]_vars

(***************************************************************************)
(* Properties of lru.Cache, checked under SpecLRU.                         *)
(***************************************************************************)
RECURSIVE SumSizes(_)
SumSizes(ll) ==
    IF ll = <<>> THEN 0
    ELSE Len(Head(ll).key) + Len(Head(ll).value.b) + SumSizes(Tail(ll))

\* the map and the list hold the same entries, one per key
MapMatchesList(c) ==
    /\ c.cache = {c.ll[i].key : i \in 1..Len(c.ll)}
    /\ \A i, j \in 1..Len(c.ll) : c.ll[i].key = c.ll[j].key => i = j

\* C1: after every call on the cache (so after every Add), nbytes is exactly
\* the sum of len(key) + value.Len() over the stored entries, and with a
\* budget > 0 nbytes is at most the budget.
C1_Accounting ==
    /\ MapMatchesList(lru)
    /\ lru.nbytes = SumSizes(lru.ll)
    /\ lru.maxBytes > 0 => lru.nbytes <= lru.maxBytes

\* an Add that had to evict left a full cache of several entries
C1_Witness ==
    /\ lruRet.op = "Add"
    /\ evicted # <<>>
    /\ Len(lru.ll) >= 2
    /\ lru.nbytes = lru.maxBytes

\* position of key in the touch history
TouchPos(seq, key) == CHOOSE i \in 1..Len(seq) : seq[i].key = key

\* the keys a step removes: stored before it (or inserted by it), gone after
Victims ==
    (lru.cache \cup (IF lruRet'.op = "Add" THEN {lruRet'.key} ELSE {})) \ lru'.cache

\* C2: every eviction removes the entry whose last touch (an Add of the key
\* or a Get that hit it) is oldest: each key a step removes was last touched
\* before every key the step leaves stored.
C2_EvictsOldest ==
    [][\A v \in Victims : \A s \in lru'.cache :
          TouchPos(touched', v) < TouchPos(touched', s)]_vars

\* an Add evicted exactly one entry and spared an entry that was inserted
\* earlier than the victim's last touch but hit by a Get since
C2_Witness ==
    /\ lruRet.op = "Add"
    /\ Len(evicted) = 1
    /\ evicted[1].key # lruRet.key
    /\ \E i \in 1..Len(touched) :
          /\ touched[i].by = "Get"
          /\ touched[i].key \in lru.cache

\* the entry Add(key, value) stores is larger than a budget > 0
Oversized(c, key, value) ==
    c.maxBytes > 0 /\ Len(key) + Len(value.b) > c.maxBytes

\* C15: with a budget > 0, an Add whose entry alone exceeds the budget
\* returns; the entry is evicted by that same Add, last of all, so the key is
\* absent afterwards, OnEvicted (if configured) has been called with that key
\* and value, and nbytes is at most the budget.
C15_OversizedEntry ==
    [][/\ \A key \in LruKeys, b \in ByteSlices :
              lru.maxBytes > 0 => LruAdd(lru, key, ByteView(b)).returns
       /\ lruRet'.op = "Add" /\ Oversized(lru, lruRet'.key, lruRet'.value) =>
              /\ lruRet'.key \notin lru'.cache
              /\ \A i \in 1..Len(lru'.ll) : lru'.ll[i].key # lruRet'.key
              /\ lru'.nbytes <= lru'.maxBytes
              /\ IF lru.OnEvicated
                 THEN /\ evicted' # <<>>
                      /\ evicted'[Len(evicted')] =
                             [key |-> lruRet'.key, value |-> lruRet'.value]
                 ELSE evicted' = <<>>]_vars

\* an oversized Add evicted an older entry and then the entry it had inserted
C15_Witness ==
    /\ lruRet.op = "Add"
    /\ Oversized(lru, lruRet.key, lruRet.value)
    /\ Len(evicted) >= 2
    /\ evicted[Len(evicted)] = [key |-> lruRet.key, value |-> lruRet.value]
    /\ lruRet.key \notin lru.cache

(***************************************************************************)
(* SpecLRULoop: lru.Cache with Add taken one loop iteration at a time, for *)
(* any maxBytes that New accepts: zero, positive or negative.              *)
(***************************************************************************)
\* the maxBytes values given to New
SignedBudgets == (0 - 2)..2

\* the condition of the eviction loop (line 92)
LoopCond(c) == c.maxBytes # 0 /\ c.maxBytes < c.nbytes

LoopInit ==
    /\ \E m \in SignedBudgets, cb \in BOOLEAN : lru = LruNew(m, cb)
    /\ evicted = <<>>
    /\ touched = <<>>
    /\ lruRet = [op |-> "New", key |-> <<>>, value |-> NilValue, ok |-> TRUE]
    /\ adding = FALSE

\* Cache.Add, lines 75-90: the insert or update; ok is set when Add returns
AddInsert ==
    /\ ~adding
    /\ \E key \in LruKeys, b \in ByteSlices :
          /\ lru' = LruInsert(lru, key, ByteView(b))
          /\ touched' = Touch(touched, key, "Add")
          /\ lruRet' = [op |-> "Add", key |-> key, value |-> ByteView(b), ok |-> FALSE]
    /\ evicted' = <<>>
    /\ adding' = TRUE

\* Cache.Add, lines 92-94: one iteration of the loop
AddEvict ==
    /\ adding
    /\ LoopCond(lru)
    /\ LET r == LruRemoveOldest(lru)
       IN  /\ lru' = r.c
           /\ evicted' = evicted \o r.ev
    /\ UNCHANGED <<touched, lruRet, adding>>

\* Cache.Add, line 95: the loop condition is false and Add returns
AddReturn ==
    /\ adding
    /\ ~LoopCond(lru)
    /\ adding' = FALSE
    /\ lruRet' = [lruRet EXCEPT !.ok = TRUE]
    /\ UNCHANGED <<lru, evicted, touched>>

InitLoop == LoopInit /\ IdleExceptLru

NextLoop ==
    \/ AddInsert /\ UNCHANGED exceptLru
    \/ AddEvict /\ UNCHANGED exceptLru
    \/ AddReturn /\ UNCHANGED exceptLru
    \/ ~adding /\ CacheGet /\ UNCHANGED exceptLru
    \/ ~adding /\ CacheRemoveOldest /\ UNCHANGED exceptLru

SpecLRULoop == InitLoop /\ [][NextLoop]_vars

\* C19: for every maxBytes (zero, positive or negative) the eviction loop of
\* Add stops: an Add in its loop can always take a step that changes the
\* cache or returns (every iteration removes an entry, so the loop is finite).
C19_AddTerminates ==
    adding => ENABLED <<AddEvict \/ AddReturn>>_lruVars

(***************************************************************************)
(* consistenthash (src/unnamed/part_000)                                   *)
(***************************************************************************)
\* real node identifiers handed to Map.Add
Nodes == {<<"a">>, <<"b">>, <<"c">>}
\* keys looked up on the ring
RingKeys == {<<"k">>}
\* the replica counts a Map is created with
ReplicaCounts == {1, 2}
\* the values the configured hash function takes (a slice of uint32)
HashValues == 0..3
\* the argument lists of one Map.Add call: zero, one or two node identifiers
AddArgs == UNION {[1..n -> Nodes] : n \in 0..2}

Digits == <<"0", "1", "2", "3", "4", "5", "6", "7", "8", "9">>

\* strconv.Itoa, for i >= 0
RECURSIVE Itoa(_)
Itoa(i) ==
    IF i < 10 THEN <<Digits[i + 1]>>
    ELSE Itoa(i \div 10) \o <<Digits[(i % 10) + 1]>>

\* every string a Map with r replicas hashes: the virtual node names and the keys
HashDomain(r) == {Itoa(i) \o n : i \in 0..(r - 1), n \in Nodes} \cup RingKeys

\* the number of virtual nodes HTTPPool.Set gives every peer
defaultReplicas == 50
\* the peer addresses of the pools, and the keys they are asked for
PeerAddrs == {<<"A">>, <<"B">>, <<"C">>}
PoolKeys == {<<"k">>, <<" ">>, <<"+">>}
\* every string the default hash is applied to
CrcDomain == {Itoa(i) \o n : i \in 0..(defaultReplicas - 1), n \in PeerAddrs} \cup PoolKeys

\* the byte of a character
Ord(c) ==
    CASE c = " " -> 32 [] c = "+" -> 43 [] c = "A" -> 65 [] c = "B" -> 66
      [] c = "C" -> 67 [] c = "k" -> 107
      [] OTHER -> 47 + (CHOOSE i \in 1..10 : Digits[i] = c)

\* bitwise exclusive or of two naturals
RECURSIVE BitXor(_, _)
BitXor(a, b) ==
    IF a = 0 THEN b
    ELSE IF b = 0 THEN a
    ELSE ((a + b) % 2) + 2 * BitXor(a \div 2, b \div 2)

\* CRC-32 (IEEE, reflected polynomial 0xEDB88320) over a register kept as two
\* 16-bit halves [hi, lo]: one bit of the division
CrcShift(c) ==
    LET s == [hi |-> c.hi \div 2, lo |-> (c.lo \div 2) + (c.hi % 2) * 32768]
    IN  IF c.lo % 2 = 1
        THEN [hi |-> BitXor(s.hi, 60856), lo |-> BitXor(s.lo, 33568)]
        ELSE s

RECURSIVE CrcBits(_, _)
CrcBits(c, n) == IF n = 0 THEN c ELSE CrcBits(CrcShift(c), n - 1)

RECURSIVE CrcBytes(_, _)
CrcBytes(c, s) ==
    IF s = <<>> THEN c
    ELSE CrcBytes(CrcBits([c EXCEPT !.lo = BitXor(c.lo, Ord(Head(s)))], 8), Tail(s))

\* int(crc32.ChecksumIEEE([]byte(s))) - 2^31: the checksum moved into the
\* signed 32-bit range; order and equality are those of the checksums
Crc32(s) ==
    LET c == CrcBytes([hi |-> 65535, lo |-> 65535], s)
    IN  ((65535 - c.hi) - 32768) * 65536 + (65535 - c.lo)

\* crc32.ChecksumIEEE on the strings that get hashed
ChecksumIEEE == [s \in CrcDomain |-> Crc32(s)]

\* a nil Hash
NilHash == <<>>

\* consistenthash.New: a nil hash function means crc32.ChecksumIEEE
MapNew(r, fn) ==
    [replicas |-> r,
     hash |-> IF DOMAIN fn = {} THEN ChecksumIEEE ELSE fn,
     keys |-> <<>>, hashMap |-> <<>>]

\* int(m.hash([]byte(s)))
HashOf(m, s) == m.hash[s]

\* sort.Ints on a short slice: an insertion sort
RECURSIVE InsertSorted(_, _)
InsertSorted(seq, x) ==
    IF seq = <<>> THEN <<x>>
    ELSE IF x <= Head(seq) THEN <<x>> \o seq
    ELSE <<Head(seq)>> \o InsertSorted(Tail(seq), x)

RECURSIVE InsertionSort(_)
InsertionSort(seq) ==
    IF seq = <<>> THEN <<>>
    ELSE InsertSorted(InsertionSort(Tail(seq)), Head(seq))

\* two sorted slices merged: every element goes to its own index plus the
\* number of elements of the other slice that sort before it
Merge(a, b) ==
    LET pa == [i \in 1..Len(a) |-> i + Cardinality({j \in 1..Len(b) : b[j] < a[i]})]
        pb == [j \in 1..Len(b) |-> j + Cardinality({i \in 1..Len(a) : a[i] <= b[j]})]
    IN  [p \in 1..(Len(a) + Len(b)) |->
            IF \E i \in 1..Len(a) : pa[i] = p
            THEN a[CHOOSE i \in 1..Len(a) : pa[i] = p]
            ELSE b[CHOOSE j \in 1..Len(b) : pb[j] = p]]

\* sort.Ints: short slices by insertion, longer ones by halves
RECURSIVE SortInts(_)
SortInts(seq) ==
    IF Len(seq) <= 12 THEN InsertionSort(seq)
    ELSE LET h == Len(seq) \div 2
         IN  Merge(SortInts(SubSeq(seq, 1, h)), SortInts(SubSeq(seq, h + 1, Len(seq))))

\* the inner loop of Map.Add (lines 37-43), from replica index i on
RECURSIVE AddReplicas(_, _, _)
AddReplicas(m, key, i) ==
    IF i < m.replicas
    THEN LET h == HashOf(m, Itoa(i) \o key)
         IN  AddReplicas(
                 [m EXCEPT !.keys = Append(m.keys, h),
                           !.hashMap = [p \in DOMAIN m.hashMap \cup {h} |->
                                           IF p = h THEN key ELSE m.hashMap[p]]],
                 key, i + 1)
    ELSE m

\* the outer loop of Map.Add (lines 36-44) over the argument list
RECURSIVE AddNodes(_, _)
AddNodes(m, args) ==
    IF args = <<>> THEN m
    ELSE AddNodes(AddReplicas(m, Head(args), 0), Tail(args))

\* Map.Add with the final sort left out
MapAddNoSort(m, args) == AddNodes(m, args)

\* Map.Add
MapAdd(m, args) ==
    LET m1 == AddNodes(m, args)
    IN  [m1 EXCEPT !.keys = SortInts(m1.keys)]

\* sort.Search(n, f) with f(i) = ks[i] >= h: binary search over i..j (0-based)
RECURSIVE Search(_, _, _, _)
Search(ks, h, i, j) ==
    IF i < j
    THEN LET mid == (i + j) \div 2
         IN  IF ~(ks[mid + 1] >= h)
             THEN Search(ks, h, mid + 1, j)
             ELSE Search(ks, h, i, mid)
    ELSE i

\* m.hashMap[p]: a missing map key reads as ""
HashMapAt(m, p) == IF p \in DOMAIN m.hashMap THEN m.hashMap[p] ELSE <<>>

\* Map.Get with the search condition m.keys[i] > hash
MapGetStrict(m, key) ==
    IF Len(m.keys) = 0 THEN <<>>
    ELSE LET h == HashOf(m, key)
             idx == Search(m.keys, h + 1, 0, Len(m.keys))
         IN  HashMapAt(m, m.keys[(idx % Len(m.keys)) + 1])

\* Map.Get
MapGet(m, key) ==
    IF Len(m.keys) = 0 THEN <<>>
    ELSE LET h == HashOf(m, key)
             idx == Search(m.keys, h, 0, Len(m.keys))
         IN  HashMapAt(m, m.keys[(idx % Len(m.keys)) + 1])

(***************************************************************************)
(* SpecRing: any sequence of calls on one Map, created with any replica    *)
(* count and any hash function.                                            *)
(***************************************************************************)
RingInit ==
    /\ \E r \in ReplicaCounts : \E fn \in [HashDomain(r) -> HashValues] :
          ring = MapNew(r, fn)
    /\ nodes = {}
    /\ ringRet = [op |-> "New", key |-> <<>>, node |-> <<>>]

RingAdd ==
    \E args \in AddArgs :
        /\ Len(ring.keys) + ring.replicas * Len(args) <= MaxRingKeys
        /\ ring' = MapAdd(ring, args)
        /\ nodes' = nodes \cup {args[i] : i \in 1..Len(args)}
        /\ ringRet' = [op |-> "Add", key |-> <<>>, node |-> <<>>]

RingGet ==
    \E key \in RingKeys :
        /\ ringRet' = [op |-> "Get", key |-> key, node |-> MapGet(ring, key)]
        /\ UNCHANGED <<ring, nodes>>

InitRing == RingInit /\ IdleExceptRing

NextRing ==
    \/ RingAdd /\ UNCHANGED exceptRing
    \/ RingGet /\ UNCHANGED exceptRing

SpecRing == InitRing /\ [][NextRing]_vars

(***************************************************************************)
(* Properties of consistenthash.Map, checked under SpecRing.               *)
(***************************************************************************)
\* the ring positions, as a set
Positions(m) == {m.keys[i] : i \in 1..Len(m.keys)}

Min(S) == CHOOSE x \in S : \A y \in S : x <= y

\* the clockwise nearest successor of hash(key): the smallest position >= it,
\* or the smallest position of all when hash(key) exceeds every position
Successor(m, key) ==
    LET atOrAfter == {p \in Positions(m) : p >= m.hash[key]}
    IN  IF atOrAfter # {} THEN Min(atOrAfter) ELSE Min(Positions(m))

\* C8: Get(key) returns the node mapped to the clockwise nearest successor of
\* hash(key), and the empty string when the ring has no positions; with a
\* single node registered it returns that node for every key.
C8_NearestSuccessor ==
    /\ \A key \in RingKeys :
          MapGet(ring, key) =
              IF Positions(ring) = {} THEN <<>>
              ELSE ring.hashMap[Successor(ring, key)]
    /\ ringRet.op = "Get" => ringRet.node = MapGet(ring, ringRet.key)
    /\ \A n \in Nodes :
          nodes = {n} /\ ring.keys # <<>> =>
              \A key \in RingKeys : MapGet(ring, key) = n

\* a Get wrapped around: hash(key) exceeds every position of a ring of two nodes
C8_Witness ==
    /\ ringRet.op = "Get"
    /\ Cardinality(nodes) = 2
    /\ Cardinality(Positions(ring)) >= 2
    /\ \A p \in Positions(ring) : p < ring.hash[ringRet.key]
    /\ ringRet.node = ring.hashMap[Min(Positions(ring))]

\* the position list is in ascending order
Sorted(ks) == \A i, j \in 1..Len(ks) : i <= j => ks[i] <= ks[j]

\* the positions the position-to-node mapping gives to node n
PositionsOf(m, n) == {p \in DOMAIN m.hashMap : m.hashMap[p] = n}

\* C9: after any sequence of Add calls the position list is sorted and each
\* registered node has exactly R positions mapped to it in hashMap, namely
\* hash(Itoa(i) + node) for i = 0..R-1.
C9_WellFormed ==
    /\ Sorted(ring.keys)
    /\ \A n \in nodes :
          /\ PositionsOf(ring, n) =
                 {ring.hash[Itoa(i) \o n] : i \in 0..(ring.replicas - 1)}
          /\ Cardinality(PositionsOf(ring, n)) = ring.replicas

\* C10: adding one node moves a key only to that node: if Get(key) returned n
\* before Add(newNode), it returns n or newNode after it.
C10_BoundedReshuffling ==
    [][\A newNode \in Nodes :
          ring' = MapAdd(ring, <<newNode>>) =>
              \A key \in RingKeys :
                  MapGet(ring', key) \in {MapGet(ring, key), newNode}]_vars

\* the last call added a node to a ring that now holds three nodes at three
\* distinct positions, the key's hash falling strictly between two of them
C10_Witness ==
    /\ ringRet.op = "Add"
    /\ Cardinality(nodes) = 3
    /\ Len(ring.keys) = 3
    /\ Cardinality(Positions(ring)) = 3
    /\ \E key \in RingKeys : \E p, q \in Positions(ring) :
          p < ring.hash[key] /\ ring.hash[key] < q

(***************************************************************************)
(* zzacache.go: Group.  A call's collaborators are its environment: what   *)
(* PickPeer, the peer's Get and the Loader answer is an input of the call, *)
(* env = [pick, remote, loader], and every collaborator call made is       *)
(* appended to the call's log with its answer.                             *)
(***************************************************************************)
\* keys handed to Group.Get
GroupKeys == {<<>>, <<"k">>, <<"j", "j">>}
\* errors of the Loader and of the remote fetch
LoaderErrs == {"loader: not found", "loader: down"}
RemoteErrs == {"server returned: 500"}
\* fmt.Errorf("key不能为空")
ErrEmptyKey == "key must not be empty"

\* ([]byte, error) answers
Answers(errs) ==
    {[bytes |-> b, err |-> Nil] : b \in ByteSlices}
        \cup {[bytes |-> <<>>, err |-> e] : e \in errs}
\* (PeerGetter, bool) answers of PickPeer
PickAnswers == {[peer |-> Nil, ok |-> FALSE], [peer |-> "peer", ok |-> TRUE]}
Envs == [pick : PickAnswers, remote : Answers(RemoteErrs), loader : Answers(LoaderErrs)]

\* one collaborator call
Logged(fn, key, ret) == [fn |-> fn, key |-> key, ret |-> ret]

\* cache{cacheBytes: cacheBytes}: the lru pointer is <<>> while nil, <<c>> once set
CacheNew(cacheBytes) == [cacheBytes |-> cacheBytes, lru |-> <<>>]

\* cache.get: [mainCache, value, ok]
CacheWrapGet(mc, key) ==
    IF mc.lru = <<>>
    THEN [mainCache |-> mc, value |-> ByteView(<<>>), ok |-> FALSE]
    ELSE LET r == LruGet(mc.lru[1], key)
         IN  [mainCache |-> [mc EXCEPT !.lru = <<r.c>>],
              value |-> IF r.ok THEN r.value ELSE ByteView(<<>>), ok |-> r.ok]

\* cache.add: the wrapper creates the lru.Cache on the first add
CacheWrapAdd(mc, key, value) ==
    LET c == IF mc.lru = <<>> THEN LruNew(mc.cacheBytes, FALSE) ELSE mc.lru[1]
    IN  [mc EXCEPT !.lru = <<LruAdd(c, key, value).c>>]

\* Group.populateCache
populateCache(mc, key, value) == CacheWrapAdd(mc, key, value)

\* Group.getLocally without populateCache
getLocallyNoPopulate(mc, key, env) ==
    IF env.loader.err # Nil
    THEN [mainCache |-> mc, value |-> ByteView(<<>>), err |-> env.loader.err,
          log |-> <<Logged("getter.Get", key, env.loader)>>]
    ELSE [mainCache |-> mc, value |-> ByteView(cloneBytes(env.loader.bytes)),
          err |-> Nil, log |-> <<Logged("getter.Get", key, env.loader)>>]

\* Group.getLocally populating the cache before it looks at the Loader's error
getLocallyPopulateFirst(mc, key, env) ==
    LET value == ByteView(cloneBytes(env.loader.bytes))
    IN  [mainCache |-> populateCache(mc, key, value),
         value |-> IF env.loader.err # Nil THEN ByteView(<<>>) ELSE value,
         err |-> env.loader.err,
         log |-> <<Logged("getter.Get", key, env.loader),
                   Logged("mainCache.add", key, value)>>]

\* Group.getLocally: [mainCache, value, err, log]
getLocally(mc, key, env) ==
    IF env.loader.err # Nil
    THEN [mainCache |-> mc, value |-> ByteView(<<>>), err |-> env.loader.err,
          log |-> <<Logged("getter.Get", key, env.loader)>>]
    ELSE LET value == ByteView(cloneBytes(env.loader.bytes))
         IN  [mainCache |-> populateCache(mc, key, value), value |-> value,
              err |-> Nil,
              log |-> <<Logged("getter.Get", key, env.loader),
                        Logged("mainCache.add", key, value)>>]

\* Group.getFromPeer: [value, err, log]
getFromPeer(peer, key, env) ==
    IF env.remote.err # Nil
    THEN [value |-> ByteView(<<>>), err |-> env.remote.err,
          log |-> <<Logged("peer.Get", key, env.remote)>>]
    ELSE [value |-> ByteView(env.remote.bytes), err |-> Nil,
          log |-> <<Logged("peer.Get", key, env.remote)>>]

\* the rest of a call after log0: the result r with log0 put before its log
After(log0, r) == [r EXCEPT !.log = log0 \o r.log]

\* Group.load populating the cache with what the peer returned
loadCachingRemote(mc, ps, key, env) ==
    IF ps # Nil /\ env.pick.ok
    THEN LET picked == <<Logged("PickPeer", key, env.pick)>>
             r == getFromPeer(env.pick.peer, key, env)
         IN  IF r.err = Nil
             THEN [mainCache |-> populateCache(mc, key, r.value), value |-> r.value,
                   err |-> Nil, log |-> picked \o r.log]
             ELSE After(picked \o r.log, getLocally(mc, key, env))
    ELSE After(IF ps # Nil THEN <<Logged("PickPeer", key, env.pick)>> ELSE <<>>,
               getLocally(mc, key, env))

\* Group.load returning the peer's error instead of falling back
loadNoFallback(mc, ps, key, env) ==
    IF ps # Nil /\ env.pick.ok
    THEN LET picked == <<Logged("PickPeer", key, env.pick)>>
             r == getFromPeer(env.pick.peer, key, env)
         IN  [mainCache |-> mc, value |-> r.value, err |-> r.err,
              log |-> picked \o r.log]
    ELSE After(IF ps # Nil THEN <<Logged("PickPeer", key, env.pick)>> ELSE <<>>,
               getLocally(mc, key, env))

\* Group.load: [mainCache, value, err, log]
load(mc, ps, key, env) ==
    IF ps # Nil
    THEN LET picked == <<Logged("PickPeer", key, env.pick)>>
         IN  IF env.pick.ok
             THEN LET r == getFromPeer(env.pick.peer, key, env)
                  IN  IF r.err = Nil
                      THEN [mainCache |-> mc, value |-> r.value, err |-> Nil,
                            log |-> picked \o r.log]
                      ELSE After(picked \o r.log, getLocally(mc, key, env))
             ELSE After(picked, getLocally(mc, key, env))
    ELSE getLocally(mc, key, env)

\* Group.Get looking the key up before it validates it
GroupGetLookupFirst(mc, ps, key, env) ==
    LET hit == CacheWrapGet(mc, key)
        looked == <<Logged("mainCache.get", key, [value |-> hit.value, ok |-> hit.ok])>>
    IN  IF key = <<>>
        THEN [mainCache |-> hit.mainCache, value |-> ByteView(<<>>),
              err |-> ErrEmptyKey, log |-> looked]
        ELSE IF hit.ok
             THEN [mainCache |-> hit.mainCache, value |-> hit.value, err |-> Nil,
                   log |-> looked]
             ELSE After(looked, load(hit.mainCache, ps, key, env))

\* Group.Get: [mainCache, value, err, log]
GroupGet(mc, ps, key, env) ==
    IF key = <<>>
    THEN [mainCache |-> mc, value |-> ByteView(<<>>), err |-> ErrEmptyKey,
          log |-> <<>>]
    ELSE LET hit == CacheWrapGet(mc, key)
             looked == <<Logged("mainCache.get", key,
                                [value |-> hit.value, ok |-> hit.ok])>>
         IN  IF hit.ok
             THEN [mainCache |-> hit.mainCache, value |-> hit.value, err |-> Nil,
                   log |-> looked]
             ELSE After(looked, load(hit.mainCache, ps, key, env))

(***************************************************************************)
(* Spec: any sequence of calls on one Group, created with any byte budget, *)
(* with any answers of its Loader, its PeerPicker and the picked peer.     *)
(***************************************************************************)
GroupInit ==
    /\ \E cacheBytes \in Budgets : mainCache = CacheNew(cacheBytes)
    /\ peers = Nil
    /\ call = [op |-> "NewGroup", key |-> <<>>, value |-> ByteView(<<>>), err |-> Nil,
               log |-> <<>>, panic |-> FALSE]

\* Group.RegisterPeers: a second registration panics
RegisterPeers ==
    /\ peers' = IF peers # Nil THEN peers ELSE "picker"
    /\ call' = [op |-> "RegisterPeers", key |-> <<>>, value |-> ByteView(<<>>), err |-> Nil,
                log |-> <<>>, panic |-> peers # Nil]
    /\ UNCHANGED mainCache

Get ==
    \E key \in GroupKeys, env \in Envs :
        LET r == GroupGet(mainCache, peers, key, env)
        IN  /\ mainCache' = r.mainCache
            /\ call' = [op |-> "Get", key |-> key, value |-> r.value, err |-> r.err,
                        log |-> r.log, panic |-> FALSE]
            /\ UNCHANGED peers

Init == GroupInit /\ IdleExceptGroup

Next ==
    \/ RegisterPeers /\ UNCHANGED exceptGroup
    \/ Get /\ UNCHANGED exceptGroup

Spec == Init /\ [][Next]_vars

(***************************************************************************)
(* Properties of Group, checked under Spec.                                *)
(***************************************************************************)
\* the calls of collaborator fn a Group call made, in order
Calls(c, fn) == SelectSeq(c.log, LAMBDA e : e.fn = fn)

\* the Loader's answer in a call that invoked it
LoaderAnswer(c) == Calls(c, "getter.Get")[1].ret

\* the picked peer's answer in a call that fetched from it
RemoteAnswer(c) == Calls(c, "peer.Get")[1].ret

\* the entries of the local cache, most recently used first
Entries(mc) == IF mc.lru = <<>> THEN <<>> ELSE mc.lru[1].ll

StoredKeys(mc) == {Entries(mc)[i].key : i \in 1..Len(Entries(mc))}

UsedBytes(mc) == IF mc.lru = <<>> THEN 0 ELSE mc.lru[1].nbytes

\* an entry of key and bytes b fits the budget on its own
Fits(mc, key, b) == mc.cacheBytes = 0 \/ Len(key) + Len(b) <= mc.cacheBytes

\* a Get(k), k non-empty, on a Group without peers that invoked the Loader
\* and got bytes from it
LoadedWithoutPeers(c, ps) ==
    /\ c.op = "Get"
    /\ c.key # <<>>
    /\ ps = Nil
    /\ Len(Calls(c, "getter.Get")) = 1
    /\ LoaderAnswer(c).err = Nil

RemoteOk(c) ==
    /\ c.op = "Get"
    /\ Calls(c, "peer.Get") # <<>>
    /\ RemoteAnswer(c).err = Nil

\* C4: a Get(k) that misses locally, is given a peer and fetches bytes Y from
\* it returns Y, does not invoke the Loader and leaves the local cache as it
\* was: no entry for k, same entries in the same order, same used bytes.
C4_RemoteNotCached ==
    [][RemoteOk(call') =>
          /\ call'.err = Nil
          /\ call'.value.b = RemoteAnswer(call').bytes
          /\ Calls(call', "getter.Get") = <<>>
          /\ call'.log[1].fn = "mainCache.get" /\ ~call'.log[1].ret.ok
          /\ mainCache' = mainCache
          /\ Entries(mainCache') = Entries(mainCache)
          /\ UsedBytes(mainCache') = UsedBytes(mainCache)
          /\ call'.key \notin StoredKeys(mainCache')]_vars

\* a Get was served by a peer while the local cache held another entry
C4_Witness ==
    /\ RemoteOk(call)
    /\ call.value.b = RemoteAnswer(call).bytes
    /\ Len(call.value.b) > 0
    /\ Entries(mainCache) # <<>>

\* a Get whose peer fetch failed
RemoteFailed(c) ==
    /\ c.op = "Get"
    /\ Calls(c, "peer.Get") # <<>>
    /\ RemoteAnswer(c).err # Nil

\* C5: a Get(k) whose peer fetch fails invokes the Loader, returns the
\* Loader's result and adds it to the local cache (where it stays, most
\* recently used, if it fits the budget); and a Get returns an error only if
\* the key is empty or the Loader failed, the error then being that one.
C5_RemoteFailureAbsorbed ==
    [][/\ RemoteFailed(call') =>
              /\ Len(Calls(call', "getter.Get")) = 1
              /\ call'.err = LoaderAnswer(call').err
              /\ LoaderAnswer(call').err = Nil =>
                     /\ call'.value.b = LoaderAnswer(call').bytes
                     /\ Calls(call', "mainCache.add") # <<>>
                     /\ IF Fits(mainCache', call'.key, call'.value.b)
                        THEN Entries(mainCache')[1] =
                                 [key |-> call'.key, value |-> call'.value]
                        ELSE call'.key \notin StoredKeys(mainCache')
       /\ call'.op = "Get" /\ call'.err # Nil =>
              \/ call'.key = <<>> /\ call'.err = ErrEmptyKey
              \/ /\ Calls(call', "getter.Get") # <<>>
                 /\ call'.err = LoaderAnswer(call').err
                 /\ call'.err \in LoaderErrs]_vars

\* a Get whose peer fetch failed returned the Loader's bytes and cached them
C5_Witness ==
    /\ RemoteFailed(call)
    /\ call.err = Nil
    /\ Len(call.value.b) > 0
    /\ Len(Entries(mainCache)) >= 2
    /\ Entries(mainCache)[1] = [key |-> call.key, value |-> call.value]

\* a Get whose Loader failed
LoaderFailed(c) ==
    /\ c.op = "Get"
    /\ Calls(c, "getter.Get") # <<>>
    /\ LoaderAnswer(c).err # Nil

\* C6: when the Loader fails for k, Get(k) returns the Loader's error, has
\* invoked the Loader once, and leaves the local cache unchanged.
C6_LoaderErrorPropagated ==
    [][LoaderFailed(call') =>
          /\ call'.err = LoaderAnswer(call').err
          /\ Len(Calls(call', "getter.Get")) = 1
          /\ Calls(call', "mainCache.add") = <<>>
          /\ mainCache' = mainCache
          /\ call'.key \notin StoredKeys(mainCache')
          /\ UsedBytes(mainCache') = UsedBytes(mainCache)]_vars

\* a Get returned the Loader's error on a Group whose cache holds an entry
C6_Witness ==
    /\ LoaderFailed(call)
    /\ call.err \in LoaderErrs
    /\ Entries(mainCache) # <<>>

\* C7: Get("") returns the input-validation error without consulting the
\* local cache, the PeerPicker or the Loader, and leaves the cache unchanged.
C7_EmptyKeyRejected ==
    [][call'.op = "Get" /\ call'.key = <<>> =>
          /\ call'.err = ErrEmptyKey
          /\ call'.log = <<>>
          /\ mainCache' = mainCache]_vars

\* Get("") was rejected on a Group with peers registered and a cached entry
C7_Witness ==
    /\ call.op = "Get"
    /\ call.key = <<>>
    /\ call.err = ErrEmptyKey
    /\ peers # Nil
    /\ Entries(mainCache) # <<>>

(***************************************************************************)
(* HTTPPool (src/unnamed/part_001): the peer set and peer resolution       *)
(***************************************************************************)
defaultBasePath == <<"/", "_", "z", "z", "a", "c", "a", "c", "h", "e">>

\* the goroutines calling into the pool
Threads == {1, 2}
\* the argument lists of Set
PeerLists == {<<>>, <<<<"A">>>>, <<<<"B">>, <<"C">>>>, <<<<"A">>, <<"B">>, <<"C">>>>}

\* NewHTTPPool: peers is a nil *Map (<<>>), httpGetters a nil map
NewHTTPPool(self) ==
    [self |-> self, basePath |-> defaultBasePath, peers |-> <<>>, httpGetters |-> {}]

\* sync.Mutex.Lock by goroutine t: it goes through only when the mutex is free
MutexLockUnguarded(m, t) == [ok |-> TRUE, mu |-> t]

MutexLock(m, t) == [ok |-> m = 0, mu |-> t]

\* consistenthash.New(defaultReplicas, nil) followed by Add(peers...), for
\* every argument list of Set
NewRing == [peerList \in PeerLists |-> MapAdd(MapNew(defaultReplicas, NilHash), peerList)]

\* Set, lines 120-122: a fresh ring holding the given peers
PoolSetRing(p, peerList) == [p EXCEPT !.peers = <<NewRing[peerList]>>]

\* Set, lines 123-126: a fresh handle map with one httpGetter per peer
PoolSetGetters(p, peerList) ==
    [p EXCEPT !.httpGetters =
        {[peer |-> peerList[i], getter |-> [baseURL |-> peerList[i] \o p.basePath]] :
            i \in 1..Len(peerList)}]

\* p.httpGetters[peer]: the *httpGetter, nil (<<>>) for a missing key
GetterAt(p, peer) ==
    IF \E e \in p.httpGetters : e.peer = peer
    THEN <<(CHOOSE e \in p.httpGetters : e.peer = peer).getter>>
    ELSE <<>>

\* PickPeer, lines 132-137; Map.Get on a nil *Map dereferences it (part_000:51)
PoolPickPeer(p, key) ==
    IF p.peers = <<>>
    THEN [getter |-> <<>>, found |-> FALSE, panic |-> TRUE]
    ELSE LET peer == MapGet(p.peers[1], key)
         IN  IF peer # <<>> /\ peer # p.self
             THEN [getter |-> GetterAt(p, peer), found |-> TRUE, panic |-> FALSE]
             ELSE [getter |-> <<>>, found |-> FALSE, panic |-> FALSE]

(***************************************************************************)
(* SpecPool: goroutines calling Set and PickPeer on one pool.  Each method *)
(* is taken statement by statement so that calls interleave.               *)
(***************************************************************************)
Idle == [pc |-> "idle", peerList |-> <<>>, key |-> <<>>]

PoolInit ==
    /\ \E self \in PeerAddrs : pool = NewHTTPPool(self)
    /\ mu = 0
    /\ thr = [t \in Threads |-> Idle]
    /\ pickRet = [op |-> "New", key |-> <<>>, getter |-> <<>>, found |-> FALSE,
                  panic |-> FALSE]
    /\ sets = <<>>

\* the Set calls that have started
SetsStarted == Len(sets) + Cardinality({t \in Threads : thr[t].pc \in {"Set", "SetGetters"}})

\* Set, line 117: p.mu.Lock()
SetLock(t) ==
    /\ thr[t].pc = "idle"
    /\ SetsStarted < MaxSets
    /\ MutexLock(mu, t).ok
    /\ mu' = MutexLock(mu, t).mu
    /\ \E peerList \in PeerLists :
          thr' = [thr EXCEPT ![t] = [pc |-> "Set", peerList |-> peerList, key |-> <<>>]]
    /\ UNCHANGED <<pool, pickRet, sets>>

\* Set, lines 120-122
SetRing(t) ==
    /\ thr[t].pc = "Set"
    /\ pool' = PoolSetRing(pool, thr[t].peerList)
    /\ thr' = [thr EXCEPT ![t].pc = "SetGetters"]
    /\ UNCHANGED <<mu, pickRet, sets>>

\* Set, lines 123-127: the handle map, then the deferred Unlock
SetGetters(t) ==
    /\ thr[t].pc = "SetGetters"
    /\ pool' = PoolSetGetters(pool, thr[t].peerList)
    /\ mu' = 0
    /\ sets' = Append(sets, thr[t].peerList)
    /\ thr' = [thr EXCEPT ![t] = Idle]
    /\ UNCHANGED pickRet

\* PickPeer, line 131: p.mu.Lock()
PickLock(t) ==
    /\ thr[t].pc = "idle"
    /\ MutexLock(mu, t).ok
    /\ mu' = MutexLock(mu, t).mu
    /\ \E key \in PoolKeys :
          thr' = [thr EXCEPT ![t] = [pc |-> "PickPeer", peerList |-> <<>>, key |-> key]]
    /\ UNCHANGED <<pool, pickRet, sets>>

\* PickPeer, lines 132-138: the lookup, then the deferred Unlock
PickBody(t) ==
    /\ thr[t].pc = "PickPeer"
    /\ LET r == PoolPickPeer(pool, thr[t].key)
       IN  pickRet' = [op |-> "PickPeer", key |-> thr[t].key, getter |-> r.getter,
                       found |-> r.found, panic |-> r.panic]
    /\ mu' = 0
    /\ thr' = [thr EXCEPT ![t] = Idle]
    /\ UNCHANGED <<pool, sets>>

InitPool == PoolInit /\ IdleExceptPool

NextPool ==
    \/ \E t \in Threads : SetLock(t) /\ UNCHANGED exceptPool
    \/ \E t \in Threads : SetRing(t) /\ UNCHANGED exceptPool
    \/ \E t \in Threads : SetGetters(t) /\ UNCHANGED exceptPool
    \/ \E t \in Threads : PickLock(t) /\ UNCHANGED exceptPool
    \/ \E t \in Threads : PickBody(t) /\ UNCHANGED exceptPool

SpecPool == InitPool /\ [][NextPool]_vars

\* the peers of the most recent Set that has returned
LastSet == {sets[Len(sets)][i] : i \in 1..Len(sets[Len(sets)])}

\* no peer is configured: no Set has returned, or the last one was given no peer
NoPeers == sets = <<>> \/ LastSet = {}

\* C11: PickPeer(key) returns found=false when no peers are configured (also
\* before any Set and after an empty Set) or when the ring assigns the key to
\* this node; otherwise it returns found=true with the non-nil handle of the
\* node the ring assigns to the key, which is never this node.
C11_PickPeerContract ==
    [][\A t \in Threads : PickBody(t) =>
          /\ ~pickRet'.panic
          /\ IF NoPeers \/ MapGet(pool.peers[1], thr[t].key) = pool.self
             THEN ~pickRet'.found /\ pickRet'.getter = <<>>
             ELSE LET owner == MapGet(pool.peers[1], thr[t].key)
                  IN  /\ owner \in LastSet \ {pool.self}
                      /\ pickRet'.found
                      /\ pickRet'.getter = <<[baseURL |-> owner \o pool.basePath]>>]_vars

\* the pool holds exactly the peers of the last Set that has returned
PoolMatchesLastSet ==
    IF sets = <<>>
    THEN pool.peers = <<>> /\ pool.httpGetters = {}
    ELSE /\ pool.peers # <<>>
         /\ Len(pool.peers[1].keys) = defaultReplicas * Cardinality(LastSet)
         /\ {pool.peers[1].hashMap[h] : h \in DOMAIN pool.peers[1].hashMap} = LastSet
         /\ {pool.peers[1].keys[i] : i \in 1..Len(pool.peers[1].keys)} =
                DOMAIN pool.peers[1].hashMap
         /\ {e.peer : e \in pool.httpGetters} = LastSet

\* C12: whenever no Set is in progress, and whenever PickPeer looks, the ring
\* holds positions only for the peers of the most recent Set and the handle
\* map's keys are exactly that peer set (never a ring of one Set with the
\* handles of another); a handle PickPeer returns is that of a peer of the
\* most recent completed Set.
C12_SetReplacesWholesale ==
    [][/\ mu' = 0 => PoolMatchesLastSet'
       /\ \A t \in Threads : PickBody(t) =>
             /\ PoolMatchesLastSet
             /\ pickRet'.found =>
                   \E peer \in LastSet :
                       pickRet'.getter = <<[baseURL |-> peer \o pool.basePath]>>]_vars

\* a second Set has replaced the first one's peers and PickPeer found a peer
C12_Witness ==
    /\ Len(sets) = 2
    /\ sets[1] # sets[2]
    /\ pickRet.found
    /\ \E peer \in LastSet : pickRet.getter = <<[baseURL |-> peer \o pool.basePath]>>
    /\ \E t \in Threads : thr[t].pc = "PickPeer"

(***************************************************************************)
(* The registry of Groups (src/zzacache.go, lines 42-70)                   *)
(***************************************************************************)
\* the names Groups are created and looked up under
GroupNames == {<<"x">>, <<"y">>}
\* the cacheBytes given to NewGroup
GroupBudgets == {0, 2}

\* the Group literal of NewGroup (lines 53-57); id stands for the pointer
GroupNew(id, name, cacheBytes) ==
    [id |-> id, name |-> name, getter |-> "getter",
     mainCache |-> CacheNew(cacheBytes), peers |-> Nil]

\* mu.Lock: goes through when no goroutine holds the mutex in either mode
RWLock(m, t) == [ok |-> m.writer = 0 /\ m.readers = {}, mu |-> [m EXCEPT !.writer = t]]

\* mu.RLock that does not wait for the writer
RWRLockUnguarded(m, t) == [ok |-> TRUE, mu |-> [m EXCEPT !.readers = @ \cup {t}]]

\* mu.RLock: goes through when no goroutine holds the mutex for writing
RWRLock(m, t) == [ok |-> m.writer = 0, mu |-> [m EXCEPT !.readers = @ \cup {t}]]

(***************************************************************************)
(* SpecRegistry: goroutines calling NewGroup and GetGroup.                 *)
(***************************************************************************)
RegIdleThread == [pc |-> "idle", name |-> <<>>, cacheBytes |-> 0]

RegInit ==
    /\ groups = [n \in GroupNames |-> <<>>]
    /\ regMu = [writer |-> 0, readers |-> {}]
    /\ regThr = [t \in Threads |-> RegIdleThread]
    /\ regRet = [op |-> "None", name |-> <<>>, g |-> <<>>]
    /\ completed = [n \in GroupNames |-> <<>>]
    /\ made = 0

\* NewGroup, lines 48-51: a non-nil getter, then mu.Lock()
NewGroupLock(t) ==
    /\ regThr[t].pc = "idle"
    /\ made + Cardinality({u \in Threads : regThr[u].pc = "NewGroup"}) < MaxGroups
    /\ RWLock(regMu, t).ok
    /\ regMu' = RWLock(regMu, t).mu
    /\ \E name \in GroupNames, cacheBytes \in GroupBudgets :
          regThr' = [regThr EXCEPT ![t] =
                        [pc |-> "NewGroup", name |-> name, cacheBytes |-> cacheBytes]]
    /\ UNCHANGED <<groups, regRet, completed, made>>

\* NewGroup, lines 53-58: allocate the Group and store it under its name
NewGroupStore(t) ==
    /\ regThr[t].pc = "NewGroup"
    /\ groups' = [groups EXCEPT ![regThr[t].name] =
                     <<GroupNew(made + 1, regThr[t].name, regThr[t].cacheBytes)>>]
    /\ made' = made + 1
    /\ regThr' = [regThr EXCEPT ![t].pc = "NewGroupReturn"]
    /\ UNCHANGED <<regMu, regRet, completed>>

\* NewGroup, line 59: return g, with the deferred mu.Unlock()
NewGroupReturn(t) ==
    /\ regThr[t].pc = "NewGroupReturn"
    /\ regMu' = [regMu EXCEPT !.writer = 0]
    /\ completed' = [completed EXCEPT ![regThr[t].name] = groups[regThr[t].name]]
    /\ regThr' = [regThr EXCEPT ![t] = RegIdleThread]
    /\ UNCHANGED <<groups, regRet, made>>

\* GetGroup, line 65: mu.RLock()
GetGroupRLock(t) ==
    /\ regThr[t].pc = "idle"
    /\ RWRLock(regMu, t).ok
    /\ regMu' = RWRLock(regMu, t).mu
    /\ \E name \in GroupNames :
          regThr' = [regThr EXCEPT ![t] = [pc |-> "GetGroup", name |-> name, cacheBytes |-> 0]]
    /\ UNCHANGED <<groups, regRet, completed, made>>

\* GetGroup, lines 66-68: g := groups[name]; mu.RUnlock(); return g
GetGroupRead(t) ==
    /\ regThr[t].pc = "GetGroup"
    /\ regRet' = [op |-> "GetGroup", name |-> regThr[t].name, g |-> groups[regThr[t].name]]
    /\ regMu' = [regMu EXCEPT !.readers = @ \ {t}]
    /\ regThr' = [regThr EXCEPT ![t] = RegIdleThread]
    /\ UNCHANGED <<groups, completed, made>>

InitRegistry == RegInit /\ IdleExceptReg

NextRegistry ==
    \/ \E t \in Threads : NewGroupLock(t) /\ UNCHANGED exceptReg
    \/ \E t \in Threads : NewGroupStore(t) /\ UNCHANGED exceptReg
    \/ \E t \in Threads : NewGroupReturn(t) /\ UNCHANGED exceptReg
    \/ \E t \in Threads : GetGroupRLock(t) /\ UNCHANGED exceptReg
    \/ \E t \in Threads : GetGroupRead(t) /\ UNCHANGED exceptReg

SpecRegistry == InitRegistry /\ [][NextRegistry]_vars

\* C13: in every interleaving, GetGroup(name) changes nothing in the registry
\* and returns nil if no NewGroup(name) has returned, else the Group of the
\* last NewGroup(name) that returned; NewGroup(name) on a name already taken
\* replaces the entry, leaves the entries of all other names alone, and its
\* Group starts with an empty cache and no peers.
C13_Registry ==
    [][/\ \A t \in Threads : GetGroupRead(t) =>
             /\ regRet'.g = completed[regThr[t].name]
             /\ groups' = groups
       /\ \A t \in Threads : NewGroupStore(t) =>
             /\ \A n \in GroupNames \ {regThr[t].name} : groups'[n] = groups[n]
             /\ groups'[regThr[t].name] # <<>>
             /\ groups'[regThr[t].name] # groups[regThr[t].name]
             /\ groups'[regThr[t].name][1].mainCache.lru = <<>>
             /\ groups'[regThr[t].name][1].mainCache.cacheBytes = regThr[t].cacheBytes
             /\ groups'[regThr[t].name][1].peers = Nil
       /\ \A t \in Threads : NewGroupReturn(t) =>
             \A n \in GroupNames \ {regThr[t].name} : completed'[n] = completed[n]]_vars

\* both Groups made so far were made under one name, and GetGroup has
\* returned the second one
C13_Witness ==
    /\ regRet.op = "GetGroup"
    /\ regRet.g # <<>>
    /\ regRet.g[1].id = 2
    /\ regRet.g = completed[regRet.name]
    /\ made = 2
    /\ \A n \in GroupNames \ {regRet.name} : groups[n] = <<>>

(***************************************************************************)
(* SpecConc: goroutines calling RegisterPeers and Get on one Group.  Every *)
(* access to the Group's shared state (g.peers, the locked mainCache) and  *)
(* every call of a collaborator is a step of its own.                      *)
(***************************************************************************)
ConcKeys == {<<>>, <<"k">>}
ConcBudgets == {0, 1}
\* the PeerPickers handed to RegisterPeers
Pickers == {"picker1", "picker2"}

GIdle == [pc |-> "idle", key |-> <<>>, picker |-> Nil, value |-> NilValue]

ConcInit ==
    /\ gPeers = Nil
    /\ \E cacheBytes \in ConcBudgets : gCache = CacheNew(cacheBytes)
    /\ gThr = [t \in Threads |-> GIdle]
    /\ gRet = [op |-> "NewGroup", by |-> 0, key |-> <<>>, value |-> NilValue,
               err |-> Nil, panic |-> FALSE]
    /\ loaderCalls = [k \in ConcKeys |-> 0]
    /\ remoteFetches = [k \in ConcKeys |-> 0]
    /\ missesServed = [k \in ConcKeys |-> 0]
    /\ started = 0

Returned(t, op, key, value, err, panic) ==
    [op |-> op, by |-> t, key |-> key, value |-> value, err |-> err, panic |-> panic]

\* the Loader invoked once more for key
LoaderCallShared(calls, thrs, t) ==
    IF \E u \in Threads \ {t} : thrs[u].pc = "populate" /\ thrs[u].key = thrs[t].key
    THEN calls
    ELSE [calls EXCEPT ![thrs[t].key] = @ + 1]

\* g.getter.Get(key), line 103: the Loader invoked once more for key
LoaderCall(calls, thrs, t) == [calls EXCEPT ![thrs[t].key] = @ + 1]

\* RegisterPeers, lines 119-121: the test of g.peers, panicking if it is set
RegisterCheck(t) ==
    /\ gThr[t].pc = "idle"
    /\ \E picker \in Pickers :
          IF gPeers # Nil
          THEN /\ gRet' = Returned(t, "RegisterPeers", <<>>, NilValue, Nil, TRUE)
               /\ UNCHANGED gThr
          ELSE /\ gThr' = [gThr EXCEPT ![t] = [GIdle EXCEPT !.pc = "assign", !.picker = picker]]
               /\ UNCHANGED gRet
    /\ UNCHANGED <<gPeers, gCache, loaderCalls, remoteFetches, missesServed, started>>

\* RegisterPeers, line 122: g.peers = peers
RegisterAssign(t) ==
    /\ gThr[t].pc = "assign"
    /\ gPeers' = gThr[t].picker
    /\ gRet' = Returned(t, "RegisterPeers", <<>>, NilValue, Nil, FALSE)
    /\ gThr' = [gThr EXCEPT ![t] = GIdle]
    /\ UNCHANGED <<gCache, loaderCalls, remoteFetches, missesServed, started>>

\* Get, lines 74-83: the empty key is refused, a hit returns, a miss goes on to load
GetLookup(t) ==
    /\ gThr[t].pc = "idle"
    /\ started < MaxGets
    /\ started' = started + 1
    /\ \E key \in ConcKeys :
          IF key = <<>>
          THEN /\ gRet' = Returned(t, "Get", key, NilValue, ErrEmptyKey, FALSE)
               /\ UNCHANGED <<gThr, gCache>>
          ELSE LET hit == CacheWrapGet(gCache, key)
               IN  /\ gCache' = hit.mainCache
                   /\ IF hit.ok
                      THEN /\ gRet' = Returned(t, "Get", key, hit.value, Nil, FALSE)
                           /\ UNCHANGED gThr
                      ELSE /\ gThr' = [gThr EXCEPT ![t] = [GIdle EXCEPT !.pc = "load", !.key = key]]
                           /\ UNCHANGED gRet
    /\ UNCHANGED <<gPeers, loaderCalls, remoteFetches, missesServed>>

\* load, lines 90-91: with a PeerPicker registered, ask it for the key's peer
LoadPick(t) ==
    /\ gThr[t].pc = "load"
    /\ \E pick \in PickAnswers :
          gThr' = [gThr EXCEPT ![t].pc = IF gPeers # Nil /\ pick.ok THEN "fetch" ELSE "local"]
    /\ UNCHANGED <<gPeers, gCache, gRet, loaderCalls, remoteFetches, missesServed, started>>

\* load, lines 92-96: getFromPeer; its value is returned, its error falls
\* through to getLocally
LoadFetch(t) ==
    /\ gThr[t].pc = "fetch"
    /\ \E remote \in Answers(RemoteErrs) :
          IF remote.err = Nil
          THEN /\ remoteFetches' = [remoteFetches EXCEPT ![gThr[t].key] = @ + 1]
               /\ missesServed' = [missesServed EXCEPT ![gThr[t].key] = @ + 1]
               /\ gRet' = Returned(t, "Get", gThr[t].key, ByteView(remote.bytes), Nil, FALSE)
               /\ gThr' = [gThr EXCEPT ![t] = GIdle]
          ELSE /\ gThr' = [gThr EXCEPT ![t].pc = "local"]
               /\ UNCHANGED <<remoteFetches, missesServed, gRet>>
    /\ UNCHANGED <<gPeers, gCache, loaderCalls, started>>

\* getLocally, lines 103-107: the Loader is invoked; its error is returned
LocalLoad(t) ==
    /\ gThr[t].pc = "local"
    /\ loaderCalls' = LoaderCall(loaderCalls, gThr, t)
    /\ \E loader \in Answers(LoaderErrs) :
          IF loader.err # Nil
          THEN /\ gRet' = Returned(t, "Get", gThr[t].key, NilValue, loader.err, FALSE)
               /\ gThr' = [gThr EXCEPT ![t] = GIdle]
          ELSE /\ gThr' = [gThr EXCEPT ![t].pc = "populate",
                                       ![t].value = ByteView(cloneBytes(loader.bytes))]
               /\ UNCHANGED gRet
    /\ UNCHANGED <<gPeers, gCache, remoteFetches, missesServed, started>>

\* getLocally, lines 108-109: populateCache, then the value is returned
LocalPopulate(t) ==
    /\ gThr[t].pc = "populate"
    /\ gCache' = populateCache(gCache, gThr[t].key, gThr[t].value)
    /\ missesServed' = [missesServed EXCEPT ![gThr[t].key] = @ + 1]
    /\ gRet' = Returned(t, "Get", gThr[t].key, gThr[t].value, Nil, FALSE)
    /\ gThr' = [gThr EXCEPT ![t] = GIdle]
    /\ UNCHANGED <<gPeers, loaderCalls, remoteFetches, started>>

InitConc == ConcInit /\ IdleExceptConc

NextConc ==
    \/ \E t \in Threads : RegisterCheck(t) /\ UNCHANGED exceptConc
    \/ \E t \in Threads : RegisterAssign(t) /\ UNCHANGED exceptConc
    \/ \E t \in Threads : GetLookup(t) /\ UNCHANGED exceptConc
    \/ \E t \in Threads : LoadPick(t) /\ UNCHANGED exceptConc
    \/ \E t \in Threads : LoadFetch(t) /\ UNCHANGED exceptConc
    \/ \E t \in Threads : LocalLoad(t) /\ UNCHANGED exceptConc
    \/ \E t \in Threads : LocalPopulate(t) /\ UNCHANGED exceptConc

SpecConc == InitConc /\ [][NextConc]_vars

\* C14: in any interleaving of RegisterPeers calls the first call attaches its
\* strategy, every later call panics and leaves it alone: a strategy, once
\* attached, is never replaced, and a call that finds one attached when it
\* returns has either attached it itself or panicked.
C14_AttachOnce ==
    [][/\ gPeers # Nil => gPeers' = gPeers
       /\ \A t \in Threads : RegisterAssign(t) => gPeers = Nil]_vars

\* the goroutines that have invoked the Loader for k and not yet returned
Populating(k) == {t \in Threads : gThr[t].pc = "populate" /\ gThr[t].key = k}

\* C18: every Get(k) that missed makes its own Loader invocation or its own
\* remote fetch, whatever the other callers are doing: per key, the Loader
\* invocations plus the remote fetches that succeeded are never fewer than
\* the calls that missed and got a value, and a caller about to invoke the
\* Loader never has to wait for another caller.
C18_NoDeduplication ==
    /\ \A k \in ConcKeys :
          loaderCalls[k] + remoteFetches[k] >=
              missesServed[k] + Cardinality(Populating(k))
    /\ \A t \in Threads :
          gThr[t].pc = "local" => ENABLED <<LocalLoad(t)>>_concVars

\* two callers missed on k before either populated the cache, and the Loader
\* has been invoked for each of them
C18_Witness ==
    /\ Populating(<<"k">>) = Threads
    /\ loaderCalls[<<"k">>] = 2
    /\ missesServed[<<"k">>] = 0

(***************************************************************************)
(* The peer transport (src/unnamed/part_001): httpGetter.Get forms the     *)
(* request, ServerHTTP serves it.                                          *)
(***************************************************************************)
\* the characters of group names and keys
WireChars == {"n", " ", "/"}
WireNames == UNION {[1..n -> WireChars] : n \in 1..MaxNameLen}
\* what follows the base path in a request formed by hand
RawRests == {<<>>, <<"n">>, <<"n", "/">>, <<"n", "/", "k">>, <<"n", "/", "k", "/", "k">>,
             <<"/", "n", "/", "k">>, <<"/", "n", "/", "k", "/", "k">>}

\* url.QueryEscape of one character: letters stay, a space becomes "+",
\* everything else its %XX code
EscapeChar(c) ==
    CASE c = " " -> <<"+">>
      [] c = "/" -> <<"%", "2", "F">>
      [] c = "+" -> <<"%", "2", "B">>
      [] c = "%" -> <<"%", "2", "5">>
      [] OTHER -> <<c>>

\* url.QueryEscape
RECURSIVE QueryEscape(_)
QueryEscape(s) ==
    IF s = <<>> THEN <<>> ELSE EscapeChar(Head(s)) \o QueryEscape(Tail(s))

\* the character of a %XX code
UnescapeCode(hi, lo) ==
    CASE hi = "2" /\ lo = "F" -> "/"
      [] hi = "2" /\ lo = "B" -> "+"
      [] hi = "2" /\ lo = "5" -> "%"
      [] hi = "2" /\ lo = "0" -> " "
      [] OTHER -> "?"

\* r.URL.Path of a request: net/url decodes the %XX codes of the path sent
\* and leaves "+" as it is
RECURSIVE PathUnescape(_)
PathUnescape(s) ==
    IF s = <<>> THEN <<>>
    ELSE IF Head(s) = "%" /\ Len(s) >= 3
         THEN <<UnescapeCode(s[2], s[3])>> \o PathUnescape(SubSeq(s, 4, Len(s)))
         ELSE <<Head(s)>> \o PathUnescape(Tail(s))

\* strings.HasPrefix
HasPrefix(s, prefix) ==
    Len(s) >= Len(prefix) /\ SubSeq(s, 1, Len(prefix)) = prefix

\* strings.SplitN(s, "/", 2)
SplitN2(s) ==
    IF \E i \in 1..Len(s) : s[i] = "/"
    THEN LET i == CHOOSE i \in 1..Len(s) : s[i] = "/" /\ \A j \in 1..(i - 1) : s[j] # "/"
         IN  <<SubSeq(s, 1, i - 1), SubSeq(s, i + 1, Len(s))>>
    ELSE <<s>>

\* the URL of httpGetter.Get (line 89)
GetterURL(h, group, key) == h.baseURL \o QueryEscape(group) \o <<"/">> \o QueryEscape(key)

\* the path http.Get(u) requests from the peer: u without the peer's address
RequestPath(u, peer) == SubSeq(u, Len(peer) + 1, Len(u))

\* group.Get(key) on the serving node: the empty key is refused, any other
\* key gets the answer of the Group
ServedGet(key, answer) ==
    IF key = <<>> THEN [bytes |-> <<>>, err |-> ErrEmptyKey] ELSE answer

\* an outcome of ServerHTTP
Response(status, groupName, key, body, panic) ==
    [status |-> status, groupName |-> groupName, key |-> key, body |-> body, panic |-> panic]

\* ServerHTTP (lines 44-77) on the decoded path r.URL.Path
ServerHTTP(p, path, registered, answer) ==
    IF ~HasPrefix(path, p.basePath)
    THEN Response(0, <<>>, <<>>, <<>>, TRUE)
    ELSE LET parts == SplitN2(SubSeq(path, Len(p.basePath) + 1, Len(path)))
         IN  IF Len(parts) # 2
             THEN Response(400, <<>>, <<>>, <<>>, FALSE)
             ELSE IF parts[1] \notin registered
                  THEN Response(404, parts[1], <<>>, <<>>, FALSE)
                  ELSE LET r == ServedGet(parts[2], answer)
                       IN  IF r.err # Nil
                           THEN Response(500, parts[1], parts[2], <<>>, FALSE)
                           ELSE Response(200, parts[1], parts[2], r.bytes, FALSE)

\* httpGetter.Get, lines 99-108: what it makes of the response
GetterResult(status, body) ==
    IF status # 200
    THEN [bytes |-> <<>>, err |-> "server returned: " \o ToString(status)]
    ELSE [bytes |-> body, err |-> Nil]

(***************************************************************************)
(* SpecWire: one exchange between two nodes.  The request is formed by     *)
(* httpGetter.Get, or is one in the documented form, or is formed by hand; *)
(* ServerHTTP serves it; httpGetter.Get reads the response.                *)
(***************************************************************************)
\* the address of the serving node
WirePeer == <<"B">>

WireInit ==
    /\ \E group \in WireNames, key \in WireNames,
          registered \in {{}, {<<"n">>}, {<<"n">>, <<>>}},
          answer \in Answers(LoaderErrs) :
          wIn = [group |-> group, key |-> key, registered |-> registered \cup {group},
                 answer |-> answer]
    /\ wReq = [path |-> <<>>, by |-> "nobody"]
    /\ wSrv = Response(0, <<>>, <<>>, <<>>, FALSE)
    /\ wCli = [bytes |-> <<>>, err |-> Nil, done |-> FALSE]

\* httpGetter.Get, lines 86-92: the request for (group, key), the getter being
\* the one Set made for the peer
ClientRequest ==
    /\ wReq.by = "nobody"
    /\ LET h == [baseURL |-> WirePeer \o defaultBasePath]
       IN  wReq' = [path |-> RequestPath(GetterURL(h, wIn.group, wIn.key), WirePeer),
                    by |-> "httpGetter"]
    /\ UNCHANGED <<wIn, wSrv, wCli>>

\* a request {basePath}/{urlEscape(group)}/{urlEscape(key)}
DocumentedPath(group, key) ==
    defaultBasePath \o <<"/">> \o QueryEscape(group) \o <<"/">> \o QueryEscape(key)

DocumentedRequest ==
    /\ wReq.by = "nobody"
    /\ wReq' = [path |-> DocumentedPath(wIn.group, wIn.key), by |-> "document"]
    /\ UNCHANGED <<wIn, wSrv, wCli>>

\* a request under the base path formed by hand
RawRequest ==
    /\ wReq.by = "nobody"
    /\ \E rest \in RawRests : wReq' = [path |-> defaultBasePath \o rest, by |-> "hand"]
    /\ UNCHANGED <<wIn, wSrv, wCli>>

\* ServerHTTP on the node that has the groups wIn.registered
Serve ==
    /\ wReq.by # "nobody"
    /\ wSrv.status = 0
    /\ wSrv' = ServerHTTP(NewHTTPPool(WirePeer), PathUnescape(wReq.path),
                          wIn.registered, wIn.answer)
    /\ UNCHANGED <<wIn, wReq, wCli>>

\* httpGetter.Get, lines 99-108
ClientReceive ==
    /\ wSrv.status # 0
    /\ ~wCli.done
    /\ LET r == GetterResult(wSrv.status, wSrv.body)
       IN  wCli' = [bytes |-> r.bytes, err |-> r.err, done |-> TRUE]
    /\ UNCHANGED <<wIn, wReq, wSrv>>

InitWire == WireInit /\ IdleExceptWire

NextWire ==
    \/ ClientRequest /\ UNCHANGED exceptWire
    \/ DocumentedRequest /\ UNCHANGED exceptWire
    \/ RawRequest /\ UNCHANGED exceptWire
    \/ Serve /\ UNCHANGED exceptWire
    \/ ClientReceive /\ UNCHANGED exceptWire

SpecWire == InitWire /\ [][NextWire]_vars

\* C16: the request httpGetter.Get sends for (group, key) has the path
\* {basePath}/{urlEscape(group)}/{urlEscape(key)}, and ServerHTTP, given a
\* path of that form, looks up exactly that group and calls Get with exactly
\* that key.
C16_WirePath ==
    /\ wReq.by = "httpGetter" => wReq.path = DocumentedPath(wIn.group, wIn.key)
    /\ wReq.by = "document" /\ wSrv.status # 0 =>
          wSrv.groupName = wIn.group /\ wSrv.key = wIn.key

\* the path segments after the base: the rest of the path cut at every "/",
\* with or without a "/" right after the base
RECURSIVE Split(_)
Split(s) ==
    IF Len(SplitN2(s)) = 1 THEN <<s>>
    ELSE <<SplitN2(s)[1]>> \o Split(SplitN2(s)[2])

Segments(path) ==
    LET rest == SubSeq(path, Len(defaultBasePath) + 1, Len(path))
    IN  IF rest # <<>> /\ Head(rest) = "/" THEN Split(Tail(rest)) ELSE Split(rest)

\* C17: a request under the base path whose path has not exactly two segments
\* after the base is answered 400; else 404 when the group is unknown; else
\* 500 when the group's Get fails; else 200 with the value's bytes.  The
\* client reports every status other than 200 as an error.
C17_Classification ==
    /\ wSrv.status # 0 =>
          LET segs == Segments(PathUnescape(wReq.path))
          IN  IF Len(segs) # 2 THEN wSrv.status = 400
              ELSE IF segs[1] \notin wIn.registered THEN wSrv.status = 404
              ELSE IF ServedGet(segs[2], wIn.answer).err # Nil THEN wSrv.status = 500
              ELSE wSrv.status = 200 /\ wSrv.body = wIn.answer.bytes
    /\ wCli.done => (wCli.err # Nil <=> wSrv.status # 200)

(***************************************************************************)
(* SpecCluster: the nodes A, B and C, every one with an HTTPPool whose     *)
(* self is its own address and whose Set was given all three addresses,    *)
(* and with one Group whose PeerPicker is that pool.  A Get that misses is *)
(* sent on as PickPeer says; the node that receives it calls Get in turn.  *)
(***************************************************************************)
ClusterPeers == <<<<"A">>, <<"B">>, <<"C">>>>
ClusterGroup == <<"n">>
\* what the Loader of a node answers
ClusterAnswers == {[bytes |-> <<1>>, err |-> Nil], [bytes |-> <<>>, err |-> "loader: down"]}

\* HTTPPool.Set
PoolSet(p, peerList) == PoolSetGetters(PoolSetRing(p, peerList), peerList)

\* the pool of every node: NewHTTPPool(self), then Set(peers...)
ClusterPools == [n \in PeerAddrs |-> PoolSet(NewHTTPPool(n), ClusterPeers)]

\* a Get call in progress on a node
Frame(node, key, stage) == [node |-> node, key |-> key, stage |-> stage]

ClusterInit ==
    /\ clCache = [n \in PeerAddrs |-> CacheNew(0)]
    /\ route = <<>>
    /\ clRet = [op |-> "None", key |-> <<>>, value |-> NilValue, err |-> Nil]
    /\ requests = 0

\* a caller outside the cluster calls Get(key) on the Group of a node
ClusterGet ==
    /\ route = <<>>
    /\ requests < MaxRequests
    /\ requests' = requests + 1
    /\ \E node \in PeerAddrs, key \in PoolKeys : route' = <<Frame(node, key, "get")>>
    /\ UNCHANGED <<clCache, clRet>>

\* the value goes back through every caller of the route
Reply(value) ==
    /\ route' = <<>>
    /\ clRet' = [op |-> "Get", key |-> route[1].key, value |-> value, err |-> Nil]

\* the node a getter sends its requests to
PeerOf(getter) == CHOOSE n \in PeerAddrs : getter.baseURL = n \o defaultBasePath

\* Get and load on the node of the last frame (zzacache.go:73-99): a hit
\* returns; on a miss the key goes to the peer PickPeer names, by
\* httpGetter.Get and that peer's ServerHTTP, or to the node's own Loader
NodeGet ==
    /\ route # <<>>
    /\ LET f == route[Len(route)]
           hit == CacheWrapGet(clCache[f.node], f.key)
           pick == PoolPickPeer(ClusterPools[f.node], f.key)
       IN  /\ f.stage = "get"
           /\ IF hit.ok
              THEN /\ clCache' = [clCache EXCEPT ![f.node] = hit.mainCache]
                   /\ Reply(hit.value)
              ELSE /\ clCache' = [clCache EXCEPT ![f.node] = hit.mainCache]
                   /\ clRet' = clRet
                   /\ IF pick.found
                      THEN LET peer == PeerOf(pick.getter[1])
                               u == GetterURL(pick.getter[1], ClusterGroup, f.key)
                               served == ServerHTTP(ClusterPools[peer],
                                             PathUnescape(RequestPath(u, peer)),
                                             {ClusterGroup}, [bytes |-> <<>>, err |-> Nil])
                           IN  IF served.status = 200
                               THEN route' = [route EXCEPT ![Len(route)].stage = "wait"]
                                                \o <<Frame(peer, served.key, "get")>>
                               ELSE route' = [route EXCEPT ![Len(route)].stage = "local"]
                      ELSE route' = [route EXCEPT ![Len(route)].stage = "local"]
    /\ UNCHANGED requests

\* getLocally on the node of the last frame (zzacache.go:102-110); its error
\* goes to the caller, which, when it is a node, falls back to its own Loader
NodeLocal ==
    /\ route # <<>>
    /\ LET f == route[Len(route)]
       IN  /\ f.stage = "local"
           /\ \E answer \in ClusterAnswers :
                 IF answer.err = Nil
                 THEN /\ clCache' = [clCache EXCEPT ![f.node] =
                                        populateCache(@, f.key, ByteView(cloneBytes(answer.bytes)))]
                      /\ Reply(ByteView(cloneBytes(answer.bytes)))
                 ELSE /\ UNCHANGED clCache
                      /\ IF Len(route) = 1
                         THEN /\ route' = <<>>
                              /\ clRet' = [op |-> "Get", key |-> f.key, value |-> NilValue,
                                           err |-> answer.err]
                         ELSE /\ route' = [SubSeq(route, 1, Len(route) - 1)
                                              EXCEPT ![Len(route) - 1].stage = "local"]
                              /\ UNCHANGED clRet
    /\ UNCHANGED requests

InitCluster == ClusterInit /\ IdleExceptCluster

NextCluster ==
    \/ ClusterGet /\ UNCHANGED exceptCluster
    \/ NodeGet /\ UNCHANGED exceptCluster
    \/ NodeLocal /\ UNCHANGED exceptCluster

SpecCluster == InitCluster /\ [][NextCluster]_vars

\* C20: with the same peer set on every node, a Get that misses is sent to at
\* most one other node, and that node answers from its cache or its Loader
\* without sending the request on: no request is ever in progress on more
\* than two nodes.
C20_OneHop == Len(route) <= 2

====
